---- MODULE Spec2Model ----
(***************************************************************************)
(* A model of faiss_service.py: the flattening of the vendor knowledge     *)
(* tree into the command registry and the per-vendor stores, the /query    *)
(* handler with its rule chain, vendor resolution with the per-user        *)
(* remembered vendor, the feature lister and the scenario synthesizer.     *)
(*                                                                         *)
(* Text is modelled as sequences of one-character strings, so that         *)
(* Python's `in`, lower(), strip(), capitalize(), replace() and the        *)
(* bracket scan of re.findall are computed, not assumed.  A TLA+ string    *)
(* names a text; Chars gives its characters.                               *)
(***************************************************************************)
EXTENDS Integers, Sequences, FiniteSets, TLC

\* A query is made of at most MaxWords phrases of PhraseList.
MaxWords == 2

\* similarity_search(user_query, k=5)
K == 5

\* The characters of the texts used below.
Chars ==
  "ACL" :> <<"A", "C", "L">> @@
  "Advanced" :> <<"A", "d", "v", "a", "n", "c", "e", "d">> @@
  "Basic" :> <<"B", "a", "s", "i", "c">> @@
  "Cisco" :> <<"C", "i", "s", "c", "o">> @@
  "Cisco " :> <<"C", "i", "s", "c", "o", " ">> @@
  "Enable SSH" :> <<"E", "n", "a", "b", "l", "e", " ", "S", "S", "H">> @@
  "F5" :> <<"F", "5">> @@
  "Firewall" :> <<"F", "i", "r", "e", "w", "a", "l", "l">> @@
  "Fortinet" :> <<"F", "o", "r", "t", "i", "n", "e", "t">> @@
  "Hostname" :> <<"H", "o", "s", "t", "n", "a", "m", "e">> @@
  "Juniper" :> <<"J", "u", "n", "i", "p", "e", "r">> @@
  "Login Banner" :> <<"L", "o", "g", "i", "n", " ", "B", "a", "n", "n", "e", "r">> @@
  "Palo Alto" :> <<"P", "a", "l", "o", " ", "A", "l", "t", "o">> @@
  "Port Security" :> <<"P", "o", "r", "t", " ", "S", "e", "c", "u", "r", "i", "t", "y">> @@
  "Router" :> <<"R", "o", "u", "t", "e", "r">> @@
  "Switch" :> <<"S", "w", "i", "t", "c", "h">> @@
  "access-list [id] deny [source]" :> <<"a", "c", "c", "e", "s", "s", "-", "l", "i", "s", "t", " ", "[", "i", "d", "]", " ", "d", "e", "n", "y", " ", "[", "s", "o", "u", "r", "c", "e", "]">> @@
  "advanced" :> <<"a", "d", "v", "a", "n", "c", "e", "d">> @@
  "advanced security level" :> <<"a", "d", "v", "a", "n", "c", "e", "d", " ", "s", "e", "c", "u", "r", "i", "t", "y", " ", "l", "e", "v", "e", "l">> @@
  "banner login [text]" :> <<"b", "a", "n", "n", "e", "r", " ", "l", "o", "g", "i", "n", " ", "[", "t", "e", "x", "t", "]">> @@
  "basic" :> <<"b", "a", "s", "i", "c">> @@
  "calendar" :> <<"c", "a", "l", "e", "n", "d", "a", "r">> @@
  "cisco" :> <<"c", "i", "s", "c", "o">> @@
  "configure" :> <<"c", "o", "n", "f", "i", "g", "u", "r", "e">> @@
  "date" :> <<"d", "a", "t", "e">> @@
  "disable" :> <<"d", "i", "s", "a", "b", "l", "e">> @@
  "enable" :> <<"e", "n", "a", "b", "l", "e">> @@
  "enable ssh" :> <<"e", "n", "a", "b", "l", "e", " ", "s", "s", "h">> @@
  "excel" :> <<"e", "x", "c", "e", "l">> @@
  "f5" :> <<"f", "5">> @@
  "features" :> <<"f", "e", "a", "t", "u", "r", "e", "s">> @@
  "filter traffic" :> <<"f", "i", "l", "t", "e", "r", " ", "t", "r", "a", "f", "f", "i", "c">> @@
  "fortinet" :> <<"f", "o", "r", "t", "i", "n", "e", "t">> @@
  "funny" :> <<"f", "u", "n", "n", "y">> @@
  "game" :> <<"g", "a", "m", "e">> @@
  "hello" :> <<"h", "e", "l", "l", "o">> @@
  "hey" :> <<"h", "e", "y">> @@
  "hi" :> <<"h", "i">> @@
  "hostname [hostname]" :> <<"h", "o", "s", "t", "n", "a", "m", "e", " ", "[", "h", "o", "s", "t", "n", "a", "m", "e", "]">> @@
  "impact" :> <<"i", "m", "p", "a", "c", "t">> @@
  "ip ssh level [security_level] port [interface] strict [security_level]" :> <<"i", "p", " ", "s", "s", "h", " ", "l", "e", "v", "e", "l", " ", "[", "s", "e", "c", "u", "r", "i", "t", "y", "_", "l", "e", "v", "e", "l", "]", " ", "p", "o", "r", "t", " ", "[", "i", "n", "t", "e", "r", "f", "a", "c", "e", "]", " ", "s", "t", "r", "i", "c", "t", " ", "[", "s", "e", "c", "u", "r", "i", "t", "y", "_", "l", "e", "v", "e", "l", "]">> @@
  "joke" :> <<"j", "o", "k", "e">> @@
  "juniper" :> <<"j", "u", "n", "i", "p", "e", "r">> @@
  "limit learned addresses" :> <<"l", "i", "m", "i", "t", " ", "l", "e", "a", "r", "n", "e", "d", " ", "a", "d", "d", "r", "e", "s", "s", "e", "s">> @@
  "meme" :> <<"m", "e", "m", "e">> @@
  "movie" :> <<"m", "o", "v", "i", "e">> @@
  "music" :> <<"m", "u", "s", "i", "c">> @@
  "name the device" :> <<"n", "a", "m", "e", " ", "t", "h", "e", " ", "d", "e", "v", "i", "c", "e">> @@
  "open" :> <<"o", "p", "e", "n">> @@
  "palo alto" :> <<"p", "a", "l", "o", " ", "a", "l", "t", "o">> @@
  "powerpoint" :> <<"p", "o", "w", "e", "r", "p", "o", "i", "n", "t">> @@
  "preview" :> <<"p", "r", "e", "v", "i", "e", "w">> @@
  "restaurant" :> <<"r", "e", "s", "t", "a", "u", "r", "a", "n", "t">> @@
  "security" :> <<"s", "e", "c", "u", "r", "i", "t", "y">> @@
  "set" :> <<"s", "e", "t">> @@
  "setup" :> <<"s", "e", "t", "u", "p">> @@
  "story" :> <<"s", "t", "o", "r", "y">> @@
  "switchport port-security" :> <<"s", "w", "i", "t", "c", "h", "p", "o", "r", "t", " ", "p", "o", "r", "t", "-", "s", "e", "c", "u", "r", "i", "t", "y">> @@
  "tell me" :> <<"t", "e", "l", "l", " ", "m", "e">> @@
  "time" :> <<"t", "i", "m", "e">> @@
  "turn on secure shell" :> <<"t", "u", "r", "n", " ", "o", "n", " ", "s", "e", "c", "u", "r", "e", " ", "s", "h", "e", "l", "l">> @@
  "use on access ports" :> <<"u", "s", "e", " ", "o", "n", " ", "a", "c", "c", "e", "s", "s", " ", "p", "o", "r", "t", "s">> @@
  "warn before login" :> <<"w", "a", "r", "n", " ", "b", "e", "f", "o", "r", "e", " ", "l", "o", "g", "i", "n">> @@
  "weather" :> <<"w", "e", "a", "t", "h", "e", "r">> @@
  "word" :> <<"w", "o", "r", "d">>

ToLower ==
  [c \in {"A","B","C","D","E","F","G","H","I","J","K","L","M","N","O","P","Q",
          "R","S","T","U","V","W","X","Y","Z"} |->
     CASE c = "A" -> "a" [] c = "B" -> "b" [] c = "C" -> "c" [] c = "D" -> "d"
       [] c = "E" -> "e" [] c = "F" -> "f" [] c = "G" -> "g" [] c = "H" -> "h"
       [] c = "I" -> "i" [] c = "J" -> "j" [] c = "K" -> "k" [] c = "L" -> "l"
       [] c = "M" -> "m" [] c = "N" -> "n" [] c = "O" -> "o" [] c = "P" -> "p"
       [] c = "Q" -> "q" [] c = "R" -> "r" [] c = "S" -> "s" [] c = "T" -> "t"
       [] c = "U" -> "u" [] c = "V" -> "v" [] c = "W" -> "w" [] c = "X" -> "x"
       [] c = "Y" -> "y" [] c = "Z" -> "z"]

\* str.lower()
Lower(s) == [i \in 1..Len(s) |-> IF s[i] \in DOMAIN ToLower THEN ToLower[s[i]] ELSE s[i]]

\* str.capitalize(): first character upper-cased, the rest lower-cased
Capitalize(s) ==
  [i \in 1..Len(s) |->
     IF i = 1
       THEN IF \E u \in DOMAIN ToLower : ToLower[u] = s[i]
              THEN CHOOSE u \in DOMAIN ToLower : ToLower[u] = s[i]
              ELSE s[i]
       ELSE IF s[i] \in DOMAIN ToLower THEN ToLower[s[i]] ELSE s[i]]

\* str.strip(): leading and trailing blanks removed
RECURSIVE LStrip(_)
LStrip(s) == IF s # <<>> /\ Head(s) = " " THEN LStrip(Tail(s)) ELSE s

RECURSIVE RStrip(_)
RStrip(s) == IF s # <<>> /\ s[Len(s)] = " " THEN RStrip(SubSeq(s, 1, Len(s) - 1)) ELSE s

Strip(s) == RStrip(LStrip(s))

\* t occurs in s at position i
At(t, s, i) == i + Len(t) - 1 <= Len(s) /\ SubSeq(s, i, i + Len(t) - 1) = t

\* Python's `t in s` on strings
In(t, s) == \E i \in 1..(Len(s) + 1) : At(t, s, i)

\* str.replace(old, new): every non-overlapping occurrence, left to right
RECURSIVE Replace(_, _, _)
Replace(s, old, new) ==
  IF s = <<>> THEN <<>>
  ELSE IF old # <<>> /\ At(old, s, 1)
    THEN new \o Replace(SubSeq(s, Len(old) + 1, Len(s)), old, new)
    ELSE <<Head(s)>> \o Replace(Tail(s), old, new)

\* key.replace("_", " ")
Pattern(key) == Replace(key, <<"_">>, <<" ">>)

\* re.findall(r"\[(.*?)\]", s): from each "[" to the first "]" after it
RECURSIVE FindAll(_)
FindAll(s) ==
  IF s = <<>> THEN <<>>
  ELSE IF Head(s) = "[" /\ \E j \in 2..Len(s) : s[j] = "]"
    THEN LET j == CHOOSE j \in 2..Len(s) : s[j] = "]" /\ \A h \in 2..(j - 1) : s[h] # "]"
         IN  <<SubSeq(s, 2, j - 1)>> \o FindAll(SubSeq(s, j + 1, Len(s)))
    ELSE FindAll(Tail(s))

(***************************************************************************)
(* Program constants                                                       *)
(***************************************************************************)

\* alias -> canonical vendor name, in the dict's iteration order
vendor_mapping ==
  << <<"cisco", "Cisco">>, <<"juniper", "Juniper">>, <<"palo alto", "Palo Alto">>,
     <<"fortinet", "Fortinet">>, <<"f5", "F5">> >>

\* list(vendor_mapping.values())
vendor_names == [i \in 1..Len(vendor_mapping) |-> vendor_mapping[i][2]]

irrelevant_keywords ==
  <<"joke", "weather", "powerpoint", "excel", "word", "story", "open", "time", "date",
    "calendar", "meme", "music", "restaurant", "movie", "tell me", "funny", "game">>

greetings == <<"hello", "hi", "hey">>

config_verbs == <<"set", "enable", "disable", "configure">>

\* The fixed replies, without their leading emoji.
SCOPE_REMINDER ==
  "Sorry, I can only assist you with network setup and security topics related to setting up or securing any of the devices across the 5 platforms"
GREETING == "Hello! How can I assist you with network setup or security today?"
NOTHING_FOUND == "Sorry, I couldn't find anything useful for that request."
NEED_DETAIL ==
  "I understood that you're trying to configure something, but I need a bit more detail. Try using keywords like SSH, VLAN, hostname, or IP."
TRAILER == "Would you like to configure another feature? All commands can be exported if needed."

(***************************************************************************)
(* The knowledge tree (final_dataset.json, the value of its "vendors"      *)
(* key).  A dict is its items in insertion order, a list its elements; a   *)
(* command entry is a record of strings.                                   *)
(***************************************************************************)
Dict(kv) == [t |-> "dict", kv |-> kv]
List(items) == [t |-> "list", items |-> items]

Keys(d) == [i \in 1..Len(d.kv) |-> d.kv[i][1]]
HasKey(d, key) == \E i \in 1..Len(d.kv) : d.kv[i][1] = key
Get(d, key) == d.kv[CHOOSE i \in 1..Len(d.kv) : d.kv[i][1] = key][2]

EnableSSH ==
  [name |-> "Enable SSH", description |-> "turn on secure shell",
   command |-> "ip ssh level [security_level] port [interface] strict [security_level]"]
SetHostname ==
  [name |-> "Hostname", description |-> "name the device", command |-> "hostname [hostname]"]
PortSecurity ==
  [name |-> "Port Security", description |-> "limit learned addresses",
   command |-> "switchport port-security", recommendations |-> "use on access ports"]
LoginBanner ==
  [name |-> "Login Banner", description |-> "warn before login", command |-> "banner login [text]"]
AclFilter ==
  [name |-> "ACL", description |-> "filter traffic", command |-> "access-list [id] deny [source]"]

\* A typical tree: category keys at the leaves only; Juniper has no security commands.
Typical ==
  Dict(<< <<"Cisco", Dict(<< <<"Router", Dict(<<
              <<"setup", List(<<EnableSSH, SetHostname>>)>>,
              <<"security", Dict(<< <<"Basic", List(<<LoginBanner>>)>>,
                                    <<"advanced", List(<<PortSecurity>>)>> >>)>> >>)>> >>)>>,
          <<"Juniper", Dict(<< <<"Switch", Dict(<< <<"setup", List(<<SetHostname>>)>> >>)>> >>)>> >>)

\* Under Cisco, category keys on a node whose children carry them too, and keys
\* named like vendors (one a vendor of the tree, one not); under Juniper, a
\* security level named like a category key.  No level is named "security":
\* line 46 raises on such a tree and the process never serves.
Irregular ==
  Dict(<< <<"Cisco", Dict(<<
              <<"security", Dict(<< <<"Basic", List(<<LoginBanner>>)>> >>)>>,
              <<"Router", Dict(<< <<"security", Dict(<< <<"advanced", List(<<PortSecurity>>)>> >>)>>,
                                  <<"setup", List(<<EnableSSH>>)>> >>)>>,
              <<"juniper", Dict(<< <<"security", Dict(<< <<"Basic", List(<<AclFilter>>)>> >>)>> >>)>>,
              <<"F5", Dict(<< <<"security", Dict(<< <<"Basic", List(<<AclFilter>>)>> >>)>> >>)>> >>)>>,
          <<"Juniper", Dict(<< <<"Firewall", Dict(<<
              <<"security", Dict(<< <<"setup", List(<<AclFilter>>)>>,
                                    <<"Advanced", List(<<PortSecurity>>)>> >>)>> >>)>> >>)>> >>)

Datasets == {Typical, Irregular}

\* The command entries of these trees.
Entries == {EnableSSH, SetHostname, PortSecurity, LoginBanner, AclFilter}

(***************************************************************************)
(* build_vendor_docs / build_faiss_indexes                                 *)
(***************************************************************************)
RECURSIVE Flatten(_)
Flatten(seqs) == IF seqs = <<>> THEN <<>> ELSE Head(seqs) \o Flatten(Tail(seqs))

\* {v.lower() for v in vendor_mapping.values()}
vendor_names_lower == {Lower(Chars[vendor_names[i]]) : i \in 1..Len(vendor_names)}

\* The dict appended to all_commands, lines 42 and 48.
SetupCommand(vendor, device_path, cmd) ==
  [vendor |-> vendor, type |-> "setup", device |-> device_path, cmd |-> cmd]
SecurityCommand(vendor, level, device_path, cmd) ==
  [vendor |-> vendor, type |-> "security", level |-> level, device |-> device_path, cmd |-> cmd]

\* The page_content of the Document, lines 43 and 49: the interpolated fields.
SetupDoc(vendor, device_path, cmd) ==
  [Vendor |-> vendor, Device |-> device_path, Type |-> "Setup", Name |-> cmd.name,
   Description |-> cmd.description, Command |-> cmd.command]
SecurityDoc(vendor, level, device_path, cmd) ==
  [Vendor |-> vendor, Device |-> device_path, SecurityLevel |-> level, Name |-> cmd.name,
   Description |-> cmd.description, Command |-> cmd.command,
   Recommendations |-> IF "recommendations" \in DOMAIN cmd THEN cmd.recommendations ELSE "None"]

NoDocs == [cmds |-> <<>>, setup |-> <<>>, security |-> <<>>]
Both(a, b) ==
  [cmds |-> a.cmds \o b.cmds, setup |-> a.setup \o b.setup, security |-> a.security \o b.security]

\* lines 40-44
collect_setup(vendor, subtree, device_path) ==
  IF HasKey(subtree, "setup")
    THEN LET items == Get(subtree, "setup").items
         IN  [cmds |-> [i \in 1..Len(items) |-> SetupCommand(vendor, device_path, items[i])],
              setup |-> [i \in 1..Len(items) |-> SetupDoc(vendor, device_path, items[i])],
              security |-> <<>>]
    ELSE NoDocs

\* lines 45-50
collect_security(vendor, subtree, device_path) ==
  IF HasKey(subtree, "security")
    THEN LET levels == Get(subtree, "security").kv
             Of(i) == levels[i][2].items
         IN  [cmds |-> Flatten([i \in 1..Len(levels) |->
                         [j \in 1..Len(Of(i)) |->
                            SecurityCommand(vendor, levels[i][1], device_path, Of(i)[j])]]),
              setup |-> <<>>,
              security |-> Flatten([i \in 1..Len(levels) |->
                             [j \in 1..Len(Of(i)) |->
                                SecurityDoc(vendor, levels[i][1], device_path, Of(i)[j])]])]
    ELSE NoDocs

\* lines 38-53; the loop of lines 51-53 runs over every key of the node
RECURSIVE collect_features(_, _, _)
RECURSIVE collect_children(_, _, _, _)
collect_features(vendor, subtree, device_path) ==
  IF subtree.t # "dict" THEN NoDocs
  ELSE Both(Both(collect_setup(vendor, subtree, device_path),
                 collect_security(vendor, subtree, device_path)),
            collect_children(vendor, subtree, device_path, 1))

collect_children(vendor, subtree, device_path, i) ==
  IF i > Len(subtree.kv) THEN NoDocs
  ELSE LET key == subtree.kv[i][1]
           val == subtree.kv[i][2]
       IN  Both(IF Lower(Chars[key]) \notin vendor_names_lower
                  THEN collect_features(vendor, val, Append(device_path, key))
                  ELSE NoDocs,
                collect_children(vendor, subtree, device_path, i + 1))

\* lines 55-59: one walk per top-level vendor, in the tree's order
build_vendor_docs(vendors) ==
  [i \in 1..Len(vendors.kv) |-> collect_features(vendors.kv[i][1], vendors.kv[i][2], <<vendors.kv[i][1]>>)]

\* FAISS.from_documents(docs, embeddings) if docs else None
NoStore == [present |-> FALSE, docs |-> <<>>]
MakeStore(docs) == IF docs # <<>> THEN [present |-> TRUE, docs |-> docs] ELSE NoStore

(***************************************************************************)
(* Requests.  The body of a POST /query is a user id and a query text; the *)
(* texts tried are the phrases of PhraseList, at most MaxWords of them, in *)
(* the list's order and separated by blanks.  The handler only tests which *)
(* fixed keywords occur in the text, so the choice and not the order of    *)
(* the phrases is what it can see.                                         *)
(***************************************************************************)
PhraseList ==
  <<"joke", "hi", "preview", "enable ssh", "features", "advanced security level",
    "security", "setup", "Cisco ", "juniper">>

\* A second user, whose queries are these: with a vendor alias, without one
\* (resolved from the context or broadcast), and one that resolves no vendor.
OtherQueries == {<<"juniper">>, <<>>, <<"joke">>}

Users == {"default_user", "alice"}

Queries ==
  UNION {{[i \in 1..n |-> PhraseList[ix[i]]] :
            ix \in {s \in [1..n -> 1..Len(PhraseList)] : \A i \in 1..(n - 1) : s[i] < s[i + 1]}} :
         n \in 0..MaxWords}

RECURSIVE Join(_)
Join(ps) ==
  IF ps = <<>> THEN <<>>
  ELSE IF Len(ps) = 1 THEN Chars[ps[1]]
  ELSE Chars[ps[1]] \o <<" ">> \o Join(Tail(ps))

\* line 73: data.get("query", "").lower().strip()
user_query_of(q) == Strip(Lower(Join(q)))

\* The words the handler looks for in a query.
Keywords ==
  {irrelevant_keywords[i] : i \in 1..Len(irrelevant_keywords)}
    \cup {greetings[i] : i \in 1..Len(greetings)}
    \cup {config_verbs[i] : i \in 1..Len(config_verbs)}
    \cup {vendor_mapping[i][1] : i \in 1..Len(vendor_mapping)}
    \cup {"preview", "impact", "features", "security", "setup", "advanced", "basic"}

\* For each query, its normalized text and the keywords that occur in it (`w in user_query`).
Normalized == [q \in Queries |-> user_query_of(q)] @@ <<>>
Occurs == [q \in Queries |-> {w \in Keywords : In(Chars[w], Normalized[q])}] @@ <<>>

\* any(w in user_query for w in words)
AnyOf(words, q) == \E i \in 1..Len(words) : words[i] \in Occurs[q]

\* line 75
preview_mode(q) == "preview" \in Occurs[q] \/ "impact" \in Occurs[q]

\* The rule chain with the greeting tested before the irrelevant keywords.
rule_greeting_first(q) ==
  IF AnyOf(greetings, q) THEN "greeting"
  ELSE IF AnyOf(irrelevant_keywords, q) THEN "reject"
  ELSE IF preview_mode(q) THEN "preview"
  ELSE IF AnyOf(config_verbs, q) THEN "scenario"
  ELSE IF "features" \in Occurs[q] THEN "features"
  ELSE "default"

\* The rule chain of lines 82-102: the first condition that holds.
rule(q) ==
  IF AnyOf(irrelevant_keywords, q) THEN "reject"
  ELSE IF AnyOf(greetings, q) THEN "greeting"
  ELSE IF preview_mode(q) THEN "preview"
  ELSE IF AnyOf(config_verbs, q) THEN "scenario"
  ELSE IF "features" \in Occurs[q] THEN "features"
  ELSE "default"

\* line 96; "None" stands for None
level_filter_of(q) ==
  IF "advanced" \in Occurs[q] THEN "advanced"
  ELSE IF "basic" \in Occurs[q] THEN "basic"
  ELSE "None"

\* The category with the security listing as the fallback.
feature_category_security_default(q) ==
  IF "setup" \in Occurs[q] /\ "security" \notin Occurs[q] THEN "setup" ELSE "security"

\* lines 97-100: the category the feature listing is asked for, "None" when the
\* if/elif matches neither and control leaves the block
feature_category(q) ==
  IF "security" \in Occurs[q] THEN "security"
  ELSE IF "setup" \in Occurs[q] THEN "setup"
  ELSE "None"

\* line 103
is_setup(q) == "setup" \in Occurs[q] \/ "configure" \in Occurs[q]

(***************************************************************************)
(* detect_vendors                                                          *)
(***************************************************************************)
Put(f, k, v) == [x \in DOMAIN f \cup {k} |-> IF x = k THEN v ELSE f[x]]

\* line 115
aliases_in(q) ==
  LET hit == SelectSeq(vendor_mapping, LAMBDA p : p[1] \in Occurs[q])
  IN  [i \in 1..Len(hit) |-> hit[i][2]]

\* detect_vendors remembering a vendor only when an alias named it.
detect_vendors_alias_only(q, user_id, contexts) ==
  LET m0 == aliases_in(q)
      m1 == IF m0 = <<>> /\ user_id \in DOMAIN contexts THEN <<contexts[user_id]>> ELSE m0
      m2 == IF m1 = <<>> THEN vendor_names ELSE m1
  IN  [mentioned |-> m2,
       contexts |-> IF m0 # <<>> THEN Put(contexts, user_id, m2[1]) ELSE contexts]

\* detect_vendors remembering the last vendor of the list instead of the first.
detect_vendors_last(q, user_id, contexts) ==
  LET m0 == aliases_in(q)
      m1 == IF m0 = <<>> /\ user_id \in DOMAIN contexts THEN <<contexts[user_id]>> ELSE m0
      m2 == IF m1 = <<>> THEN vendor_names ELSE m1
  IN  [mentioned |-> m2, contexts |-> Put(contexts, user_id, m2[Len(m2)])]

\* lines 114-121: the list returned and user_contexts afterwards
detect_vendors(q, user_id, contexts) ==
  LET m0 == aliases_in(q)
      m1 == IF m0 = <<>> /\ user_id \in DOMAIN contexts THEN <<contexts[user_id]>> ELSE m0
      m2 == IF m1 = <<>> THEN vendor_names ELSE m1
  IN  [mentioned |-> m2, contexts |-> Put(contexts, user_id, m2[1])]

(***************************************************************************)
(* generate_feature_list                                                   *)
(***************************************************************************)
\* [v.lower() for v in dataset["vendors"].keys()]
dataset_vendors_lower(vendors) == {Lower(Chars[vendors.kv[i][1]]) : i \in 1..Len(vendors.kv)}

\* lines 135-138: the header and the command lines of one level; `from` records
\* the level the line was produced from
level_lines(level, commands, device_path) ==
  <<[kind |-> "header", label |-> device_path[Len(device_path)],
     level |-> IF level = "" THEN <<>> ELSE Capitalize(Chars[level])]>>
  \o [j \in 1..Len(commands) |->
        [kind |-> "command", name |-> commands[j].name,
         description |-> commands[j].description, from |-> level]]

\* The level test of line 134 inverted.
skipped_inverted(level, level_filter) ==
  level_filter # "None" /\ Lower(Chars[level]) = Chars[level_filter]

\* line 134
skipped(level, level_filter) ==
  level_filter # "None" /\ Lower(Chars[level]) # Chars[level_filter]

\* lines 129-142; vendor_keys is the list of line 141, which does not change
\* during the walk
RECURSIVE extract_features(_, _, _, _, _)
RECURSIVE extract_children(_, _, _, _, _, _)
extract_features(vendor_keys, subtree, device_path, feature_type, level_filter) ==
  IF subtree.t # "dict" THEN <<>>
  ELSE IF HasKey(subtree, feature_type)
    THEN LET levels == IF feature_type = "security"
                         THEN [i \in 1..Len(Get(subtree, feature_type).kv) |->
                                 <<Get(subtree, feature_type).kv[i][1],
                                   Get(subtree, feature_type).kv[i][2].items>>]
                         ELSE << <<"", Get(subtree, feature_type).items>> >>
         IN  Flatten([i \in 1..Len(levels) |->
                        IF skipped(levels[i][1], level_filter) THEN <<>>
                        ELSE level_lines(levels[i][1], levels[i][2], device_path)])
    ELSE extract_children(vendor_keys, subtree, device_path, feature_type, level_filter, 1)

extract_children(vendor_keys, subtree, device_path, feature_type, level_filter, i) ==
  IF i > Len(subtree.kv) THEN <<>>
  ELSE LET k == subtree.kv[i][1]
           v == subtree.kv[i][2]
       IN  (IF Lower(Chars[k]) \notin vendor_keys
              THEN extract_features(vendor_keys, v, Append(device_path, k), feature_type,
                                    level_filter)
              ELSE <<>>)
           \o extract_children(vendor_keys, subtree, device_path, feature_type, level_filter,
                               i + 1)

\* lines 123-145: the response text, line by line
generate_feature_list(vendors, vendors_found, feature_type, level_filter) ==
  LET vendor_keys == dataset_vendors_lower(vendors)
  IN  Flatten([n \in 1..Len(vendors_found) |->
                 IF ~HasKey(vendors, vendors_found[n]) THEN <<>>
                 ELSE <<[kind |-> "title", type |-> Capitalize(Chars[feature_type]),
                         vendor |-> vendors_found[n]]>>
                      \o extract_features(vendor_keys, Get(vendors, vendors_found[n]),
                                          <<vendors_found[n]>>, feature_type, level_filter)])
      \o <<[kind |-> "trailer", text |-> TRAILER]>>

(***************************************************************************)
(* handle_scenario                                                         *)
(***************************************************************************)
\* Line 155 with an empty replacement when the pattern is not found.
fill_key_blank(filled, key, query) ==
  LET token == <<"[">> \o key \o <<"]">>
  IN  Replace(filled, token, IF In(Pattern(key), query) THEN Pattern(key) ELSE <<>>)

\* line 155, for one key
fill_key(filled, key, query) ==
  LET token == <<"[">> \o key \o <<"]">>
  IN  Replace(filled, token, IF In(Pattern(key), query) THEN Pattern(key) ELSE token)

\* lines 153-155, for the keys found in the template
RECURSIVE fill(_, _, _)
fill(filled, keys, query) ==
  IF keys = <<>> THEN filled
  ELSE fill(fill_key(filled, Head(keys), query), Tail(keys), query)

\* lines 150-151
matches(cmd, query) ==
  In(Lower(Chars[cmd.name]), query) \/ In(Lower(Chars[cmd.description]), query)

\* lines 152-155
filled_command(cmd, query) == fill(Chars[cmd.command], FindAll(Chars[cmd.command]), query)

\* For each query and command entry of the trees: whether line 151 holds, and
\* the command line 156 then appends.
Scenario ==
  [p \in Queries \X Entries |->
     [matches |-> matches(p[2], Normalized[p[1]]),
      filled |-> filled_command(p[2], Normalized[p[1]])]] @@ <<>>

\* lines 147-159
handle_scenario(q, commands) ==
  LET hit == SelectSeq(commands, LAMBDA c : Scenario[<<q, c.cmd>>].matches)
  IN  IF hit = <<>> THEN [kind |-> "message", text |-> NEED_DETAIL]
      ELSE [kind |-> "scenario",
            matched |-> [i \in 1..Len(hit) |->
                           [name |-> hit[i].cmd.name,
                            command |-> hit[i].cmd.command,
                            filled |-> Scenario[<<q, hit[i].cmd>>].filled]]]

(***************************************************************************)
(* Default retrieval, lines 102-112                                        *)
(***************************************************************************)
Min(a, b) == IF a < b THEN a ELSE b

\* store.similarity_search(user_query, k): the k nearest documents of the
\* store, nearest first; which are nearest is decided by the embeddings, so
\* every choice and order of min(k, n) distinct documents is possible
similarity_search(store, k) ==
  LET n == Len(store.docs)
      m == Min(k, n)
  IN  {[i \in 1..m |-> store.docs[pick[i]]] :
         pick \in {f \in [1..m -> 1..n] : \A a, b \in 1..m : a # b => f[a] # f[b]}}

\* vendor_setup_stores.get(vendor) / vendor_security_stores.get(vendor)
store_of(stores, vendor) == IF vendor \in DOMAIN stores THEN stores[vendor] ELSE NoStore

\* lines 104-109: the values all_results can have after the loop
RECURSIVE search_all(_, _)
search_all(mentioned, stores) ==
  IF mentioned = <<>> THEN {<<>>}
  ELSE LET store == store_of(stores, Head(mentioned))
           first == IF store.present THEN similarity_search(store, K) ELSE {<<>>}
       IN  {a \o b : a \in first, b \in search_all(Tail(mentioned), stores)}

\* Lines 110-112 without the test for an empty list.
default_results_unchecked(all_results) ==
  [i \in 1..Len(all_results) |-> [kind |-> "document", page_content |-> all_results[i]]]

\* lines 110-112
default_results(all_results) ==
  IF all_results = <<>> THEN <<[kind |-> "message", text |-> NOTHING_FOUND]>>
  ELSE [i \in 1..Len(all_results) |-> [kind |-> "document", page_content |-> all_results[i]]]

\* get_preview: the completion's text, or the failure text of the except branch
get_preview == {[kind |-> "preview", ok |-> TRUE], [kind |-> "preview", ok |-> FALSE]}

VARIABLES
  dataset,                \* dataset["vendors"]
  phase,                  \* "loading" until build_faiss_indexes() of line 68 has run
  all_commands,
  vendor_setup_stores,
  vendor_security_stores,
  user_contexts,
  request,                \* the last request handled
  response,               \* what the handler did for it and the results it returned
  resolved                \* per user, the list detect_vendors returned last

vars ==
  <<dataset, phase, all_commands, vendor_setup_stores, vendor_security_stores, user_contexts,
    request, response, resolved>>

NoRequest == [user_id |-> "", query |-> <<>>]
NoResponse == [path |-> "none", results |-> <<>>, detected |-> <<>>, category |-> "None",
               level_filter |-> "None"]

Init ==
  /\ dataset \in Datasets
  /\ phase = "loading"
  /\ all_commands = <<>>
  /\ vendor_setup_stores = <<>>
  /\ vendor_security_stores = <<>>
  /\ user_contexts = <<>>
  /\ request = NoRequest
  /\ response = NoResponse
  /\ resolved = [u \in Users |-> <<>>]

build_faiss_indexes ==
  /\ phase = "loading"
  /\ LET built == build_vendor_docs(dataset)
         names == Keys(dataset)
         At1(v) == CHOOSE i \in 1..Len(names) : names[i] = v
     IN  /\ all_commands' = Flatten([i \in 1..Len(built) |-> built[i].cmds])
         /\ vendor_setup_stores' =
              [v \in {names[i] : i \in 1..Len(names)} |-> MakeStore(built[At1(v)].setup)]
         /\ vendor_security_stores' =
              [v \in {names[i] : i \in 1..Len(names)} |-> MakeStore(built[At1(v)].security)]
  /\ phase' = "serving"
  /\ UNCHANGED <<dataset, user_contexts, request, response, resolved>>

\* Lines 102-112, entered with the contexts left by what ran before; `before`
\* holds the lists detect_vendors has already returned in this request.
default_path(q, user_id, contexts, before) ==
  LET d == detect_vendors(q, user_id, contexts)
      stores == IF is_setup(q) THEN vendor_setup_stores ELSE vendor_security_stores
  IN  {[path |-> "default", results |-> default_results(r),
        detected |-> Append(before, d.mentioned),
        category |-> IF is_setup(q) THEN "setup" ELSE "security",
        level_filter |-> "None", contexts |-> d.contexts] :
         r \in search_all(d.mentioned, stores)}

\* Lines 94-100, and the fall into line 102 when neither category is named.
features_path(q, user_id, contexts) ==
  LET d == detect_vendors(q, user_id, contexts)
      category == feature_category(q)
      \* line 100 passes no level filter
      filter == IF category = "security" THEN level_filter_of(q) ELSE "None"
  IN  IF category = "None"
        THEN default_path(q, user_id, d.contexts, <<d.mentioned>>)
        ELSE {[path |-> "features",
               results |-> <<[kind |-> "listing",
                              lines |-> generate_feature_list(dataset, d.mentioned, category,
                                                              filter)]>>,
               detected |-> <<d.mentioned>>, category |-> category, level_filter |-> filter,
               contexts |-> d.contexts]}

\* What one call of the handler can return and leave in user_contexts.
outcomes(q, user_id, contexts) ==
  LET direct(path, result) ==
        [path |-> path, results |-> <<result>>, detected |-> <<>>, category |-> "None",
         level_filter |-> "None", contexts |-> contexts]
      first == rule(q)
  IN  CASE first = "reject" -> {direct("reject", [kind |-> "message", text |-> SCOPE_REMINDER])}
        [] first = "greeting" -> {direct("greeting", [kind |-> "message", text |-> GREETING])}
        [] first = "preview" -> {direct("preview", p) : p \in get_preview}
        [] first = "scenario" -> {direct("scenario", handle_scenario(q, all_commands))}
        [] first = "features" -> features_path(q, user_id, contexts)
        [] OTHER -> default_path(q, user_id, contexts, <<>>)

\* POST /query, lines 70-112
query_faiss(user_id, q) ==
  /\ phase = "serving"
  /\ \E o \in outcomes(q, user_id, user_contexts) :
       /\ user_contexts' = o.contexts
       /\ response' = [path |-> o.path, results |-> o.results, detected |-> o.detected,
                       category |-> o.category, level_filter |-> o.level_filter]
       /\ resolved' = IF o.detected # <<>>
                        THEN [resolved EXCEPT ![user_id] = o.detected[Len(o.detected)]]
                      ELSE resolved
  /\ request' = [user_id |-> user_id, query |-> q]
  /\ UNCHANGED <<dataset, phase, all_commands, vendor_setup_stores, vendor_security_stores>>

Next ==
  \/ build_faiss_indexes
  \/ \E q \in Queries : query_faiss("default_user", q)
  \/ \E q \in OtherQueries : query_faiss("alice", q)

Spec == Init /\ [][Next]_vars

(***************************************************************************)
(* Properties                                                              *)
(***************************************************************************)
Served == phase = "serving" /\ response.path # "none"
Has(w) == w \in Occurs[request.query]
Message(text) == [kind |-> "message", text |-> text]
LastDetected == response.detected[Len(response.detected)]

\* C2: a query that contains an irrelevant-topic keyword is answered with
\* exactly the scope reminder, by the rejection rule and with no vendor
\* resolution, whatever else it contains.
C2_RejectionFirst ==
  (Served /\ AnyOf(irrelevant_keywords, request.query))
    => /\ response.results = <<Message(SCOPE_REMINDER)>>
       /\ response.path = "reject"
       /\ response.detected = <<>>

\* A rejected query that also holds a greeting, "features", a configuration
\* verb or "preview".
C2_Witness ==
  /\ Served /\ Has("joke")
  /\ Has("hi") \/ Has("features") \/ Has("enable") \/ Has("preview")
  /\ response.path = "reject"

\* C1: when detect_vendors last returned the list L for a user, the next
\* query of that user that reaches detect_vendors and holds no vendor alias
\* resolves to exactly <<L[1]>>, in each call it makes, whatever the other
\* user asked and whatever non-resolving queries came in between.
C1_StickyVendor ==
  [][(/\ response'.detected # <<>>
      /\ aliases_in(request'.query) = <<>>
      /\ resolved[request'.user_id] # <<>>)
       => \A i \in 1..Len(response'.detected) :
            response'.detected[i] = <<resolved[request'.user_id][1]>>]_vars

\* The default user is answered from a remembered Juniper while the other
\* user's remembered vendor is Cisco, left there by a broadcast.
C1_Witness ==
  /\ Served /\ request.user_id = "default_user"
  /\ aliases_in(request.query) = <<>>
  /\ response.detected = << <<"Juniper">> >>
  /\ resolved["alice"] = <<"Cisco">>
  /\ user_contexts["alice"] = "Cisco"

ResolvingPaths == {"features", "default"}

\* C5 as stated: after any query of a user, that user has a remembered vendor.
C5_Original == Served => request.user_id \in DOMAIN user_contexts

\* C5, amended: a query answered by the feature listing or by default
\* retrieval leaves its user with a remembered vendor, the first of the list
\* detect_vendors returned last; a query answered by rejection, greeting,
\* preview or scenario synthesis leaves user_contexts as it was.
C5_WrittenWhenResolved ==
  [][IF phase = "serving" /\ response'.path \in ResolvingPaths
       THEN /\ request'.user_id \in DOMAIN user_contexts'
            /\ user_contexts'[request'.user_id]
                 = response'.detected[Len(response'.detected)][1]
            /\ \A u \in DOMAIN user_contexts \ {request'.user_id} :
                 u \in DOMAIN user_contexts' /\ user_contexts'[u] = user_contexts[u]
       ELSE user_contexts' = user_contexts]_vars

\* A retrieval for two named vendors has left the first of them remembered.
C5_Witness ==
  /\ Served /\ response.path = "default"
  /\ response.detected = << <<"Cisco", "Juniper">> >>
  /\ user_contexts[request.user_id] = "Cisco"

ChosenStores == IF response.category = "setup" THEN vendor_setup_stores ELSE vendor_security_stores
Contributing == SelectSeq(LastDetected, LAMBDA v : store_of(ChosenStores, v).present)

RECURSIVE SumSeq(_)
SumSeq(ns) == IF ns = <<>> THEN 0 ELSE Head(ns) + SumSeq(Tail(ns))

\* C3: the results of a served query are never empty; on the default path the
\* documents returned come from the resolved vendors that have an index of
\* the chosen category, min(k, n) from each, and when no resolved vendor has
\* one the results are exactly the "nothing useful found" message.
C3_AbsentIndexAndFallback ==
  Served =>
    /\ response.results # <<>>
    /\ response.path = "default" =>
         IF Contributing = <<>>
           THEN response.results = <<Message(NOTHING_FOUND)>>
           ELSE /\ \A i \in 1..Len(response.results) :
                     /\ response.results[i].kind = "document"
                     /\ \E j \in 1..Len(Contributing) :
                          response.results[i].page_content.Vendor = Contributing[j]
                /\ Len(response.results)
                     = SumSeq([j \in 1..Len(Contributing) |->
                                 Min(K, Len(ChosenStores[Contributing[j]].docs))])

\* Retrieval for Juniper alone, which has no security index in the typical tree.
C3_Witness ==
  /\ Served /\ response.path = "default"
  /\ LastDetected = <<"Juniper">>
  /\ "Juniper" \in DOMAIN vendor_security_stores
  /\ ~vendor_security_stores["Juniper"].present
  /\ response.results = <<Message(NOTHING_FOUND)>>

\* C4 as stated: a query with "features" and "setup", and with no irrelevant
\* keyword, greeting, "preview" or "impact", is answered by the feature
\* listing for category setup.
C4_Original ==
  (/\ Served /\ Has("features") /\ Has("setup")
   /\ ~AnyOf(irrelevant_keywords, request.query)
   /\ ~AnyOf(greetings, request.query)
   /\ ~preview_mode(request.query))
    => response.path = "features" /\ response.category = "setup"

FallsThrough ==
  Served /\ rule(request.query) = "features" /\ ~Has("security") /\ ~Has("setup")

\* C6 as stated: a query that reaches the "features" rule and names neither
\* category gets no response and does not run default retrieval.
C6_Original == FallsThrough => response.results = <<>> /\ response.path # "default"

\* C6, amended: such a query calls detect_vendors a second time, which
\* returns the aliases again or else the first vendor of the first call's
\* list, and is answered by default retrieval over the security indexes of
\* the vendors the second call returned.
C6_FallsIntoRetrieval ==
  FallsThrough =>
    /\ response.path = "default" /\ response.category = "security"
    /\ Len(response.detected) = 2
    /\ response.detected[2] = IF aliases_in(request.query) # <<>> THEN response.detected[1]
                               ELSE <<response.detected[1][1]>>
    /\ response.results \in
         {default_results(r) : r \in search_all(response.detected[2], vendor_security_stores)}

\* "features" alone, answered with security documents.
C6_Witness ==
  /\ FallsThrough
  /\ response.results[1].kind = "document"
  /\ response.detected = <<vendor_names, <<"Cisco">> >>

ListingLines == response.results[1].lines

\* C7: a feature listing made with a level filter has no header and no command
\* line from a security level whose name, lower-cased, differs from the filter.
C7_LevelFilter ==
  (Served /\ response.path = "features" /\ response.level_filter # "None")
    => \A i \in 1..Len(ListingLines) :
         /\ ListingLines[i].kind = "header"
              => Lower(ListingLines[i].level) = Chars[response.level_filter]
         /\ ListingLines[i].kind = "command"
              => Lower(Chars[ListingLines[i].from]) = Chars[response.level_filter]

\* An "advanced" listing that shows a command of a vendor which also has
\* security commands of another level.
C7_Witness ==
  /\ Served /\ response.path = "features" /\ response.level_filter = "advanced"
  /\ \E i \in 1..Len(ListingLines) : ListingLines[i].kind = "command"
  /\ \E i \in 1..Len(all_commands) :
       /\ all_commands[i].type = "security"
       /\ all_commands[i].vendor = response.detected[1][1]
       /\ Lower(Chars[all_commands[i].level]) # Chars["advanced"]

Occurrences(t, s) == Cardinality({i \in 1..Len(s) : At(t, s, i)})
Token(key) == <<"[">> \o key \o <<"]">>
Synthesized == response.results[1].matched

\* C8: in a synthesized command, the bracketed token of every placeholder
\* whose pattern does not occur in the query is present as often as in the
\* template.
C8_UnfilledPlaceholders ==
  (Served /\ response.path = "scenario" /\ response.results[1].kind = "scenario")
    => \A i \in 1..Len(Synthesized) :
         LET template == Chars[Synthesized[i].command]
             keys == FindAll(template)
         IN  \A k \in 1..Len(keys) :
               ~In(Pattern(keys[k]), Normalized[request.query])
                 => /\ Occurrences(Token(keys[k]), Synthesized[i].filled)
                         = Occurrences(Token(keys[k]), template)
                    /\ In(Token(keys[k]), Synthesized[i].filled)

\* A command with one placeholder filled from the query and another left as it was.
C8_Witness ==
  /\ Served /\ response.path = "scenario" /\ response.results[1].kind = "scenario"
  /\ \E i \in 1..Len(Synthesized) :
       LET keys == FindAll(Chars[Synthesized[i].command])
       IN  /\ \E k \in 1..Len(keys) : In(Pattern(keys[k]), Normalized[request.query])
           /\ \E k \in 1..Len(keys) :
                /\ ~In(Pattern(keys[k]), Normalized[request.query])
                /\ In(Token(keys[k]), Synthesized[i].filled)

\* The command entries of a subtree as the tree is documented: the entries of
\* its setup list and of its security levels, and those of every other child
\* whose key is not a vendor name.
RECURSIVE entry_count(_)
entry_count(subtree) ==
  IF subtree.t # "dict" THEN 0
  ELSE SumSeq([i \in 1..Len(subtree.kv) |->
         LET key == subtree.kv[i][1]
             val == subtree.kv[i][2]
         IN  IF key = "setup" THEN Len(val.items)
             ELSE IF key = "security"
               THEN SumSeq([j \in 1..Len(val.kv) |-> Len(val.kv[j][2].items)])
             ELSE IF Lower(Chars[key]) \in vendor_names_lower THEN 0
             ELSE entry_count(val)])

DocumentCount ==
  SumSeq([i \in 1..Len(dataset.kv) |->
            Len(vendor_setup_stores[dataset.kv[i][1]].docs)
              + Len(vendor_security_stores[dataset.kv[i][1]].docs)])

\* C9 as stated: the flattener registers one Command and one Document for each
\* command entry, none twice, and as many Commands as Documents.
C9_Original ==
  phase = "serving" =>
    /\ Len(all_commands) = SumSeq([i \in 1..Len(dataset.kv) |-> entry_count(dataset.kv[i][2])])
    /\ DocumentCount = Len(all_commands)

Listed == {ListingLines[i].name : i \in {j \in 1..Len(ListingLines) : ListingLines[j].kind = "command"}}
Registered(vendor_set, type) ==
  {all_commands[i].cmd.name :
     i \in {j \in 1..Len(all_commands) :
              all_commands[j].vendor \in vendor_set /\ all_commands[j].type = type}}

\* C10 as stated: the commands a feature listing without a level filter shows
\* are the Commands registered for the listed vendors and the category.
C10_Original ==
  (Served /\ response.path = "features" /\ response.level_filter = "None")
    => Listed = Registered({response.detected[1][i] : i \in 1..Len(response.detected[1])},
                           response.category)
====
